---- MODULE Spec2Model ----
(***************************************************************************)
(* Model of Backend/server.js: the page-session tracker behind             *)
(* /api/monitoring (page-visit, page-leave) and the socket.io signaling    *)
(* relay (offer, answer, ice-candidate).                                   *)
(*                                                                         *)
(* Node runs every handler and every callback to completion on one thread, *)
(* so a handler is one action and the callback of its connection.query is  *)
(* another one, taken later.                                               *)
(***************************************************************************)
EXTENDS Integers, Sequences, FiniteSets, TLC

\* ------------------------------------------------------------------ bounds

\* Principals (req.user.id values) that send monitoring requests.
Users == {"u1", "u2"}

\* Requests the tracker handles in one behaviour.
MaxReqs == 3

\* The clock (new Date()) in milliseconds: it advances by TickMs up to MaxNow.
TickMs == 500
MaxNow == 1500

\* The event names and details the clients report on /api/monitoring/activity.
ActivityEvents == {"Button Click"}
ActivityDetails == {[button |-> 1, timestamp |-> 99]}

\* Socket connections (socket.id values), each connecting at most once.
Sockets == {"A", "B", "C"}

\* Handshake payloads (an SDP or an ICE candidate), opaque to the relay.
Payloads == {"sdp1", "sdp2"}

\* Handshake messages the relay receives in one behaviour.
MaxMsgs == 2
\* Requests, relayed messages and connections the whole server is followed
\* through.
MaxEvents == 2

\* The usernames clients register with, and the register calls followed.
Usernames == {"alice", "bob"}
MaxRegs == 3

\* The passwords clients send, the value of a body with no password, and
\* the login calls followed.
Passwords == {"pw1", "pw2"}
Missing == "undefined"
MaxLogins == 2
MaxCalls == 3

\* ---------------------------------------------------------------- program

\* Math.floor((timestamp - new Date(visitTime)) / 1000) divides by this.
MsPerSec == 1000

VARIABLES
    now,              \* the wall clock, ms
    pageVisitLogged,  \* the object pageVisitLogged: userId -> true
    userVisitTimes,   \* the object userVisitTimes: userId -> {visitTime}
    queryQueue,       \* INSERTs handed to connection.query, callback pending
    activities,       \* rows of the table activities, in insertion order
    responses,        \* request id -> the response sent on res
    reqs,             \* log of the requests to /api/monitoring, in order
    tokens,           \* log of the tokens these requests carried, in order
    emitted,          \* log of the INSERTs handed to connection.query, in order
    conn,             \* socket.id -> "new" | "open" | "broken" | "closed"
    members,          \* the sockets of the namespace, which broadcast reaches
    inbox,            \* socket.id -> the events emitted to that socket
    sent,             \* log of the events the relay received, in order
    users,            \* rows of the table users, in insertion order
    userQueries,      \* queries of the user model, callback pending
    regs,             \* log of the calls of register, in order
    regResponses,     \* register call id -> the status sent on res
    logins,           \* log of the calls of login, in order
    loginResponses    \* login call id -> the response sent on res

trackerVars == <<now, pageVisitLogged, userVisitTimes, queryQueue, activities,
                 responses, reqs, tokens, emitted>>
relayVars == <<conn, members, inbox, sent>>
accountVars == <<users, userQueries, regs, regResponses, logins, loginResponses>>
vars == <<now, pageVisitLogged, userVisitTimes, queryQueue, activities,
          responses, reqs, tokens, emitted, conn, members, inbox, sent,
          users, userQueries, regs, regResponses, logins, loginResponses>>

\* Faulty variant of Put: a key the object already has keeps its value.
PutKeep(obj, key, value) ==
    [k \in DOMAIN obj \cup {key} |-> IF k \in DOMAIN obj THEN obj[k] ELSE value]

\* obj[key] = value on a JavaScript object.
Put(obj, key, value) ==
    [k \in DOMAIN obj \cup {key} |-> IF k = key THEN value ELSE obj[k]]

\* Faulty variant of Delete: the key is kept.
DeleteNothing(obj, key) == obj

\* Faulty variant of Delete: the object is emptied, whatever the key.
DeleteAll(obj, key) == [k \in {} |-> TRUE]

\* delete obj[key]; deleting an absent key does nothing.
Delete(obj, key) == [k \in DOMAIN obj \ {key} |-> obj[k]]

EmptyObject == [k \in {} |-> TRUE]

Init ==
    /\ now = 0
    /\ pageVisitLogged = EmptyObject
    /\ userVisitTimes = EmptyObject
    /\ queryQueue = <<>>
    /\ activities = <<>>
    /\ responses = EmptyObject
    /\ reqs = <<>>
    /\ tokens = <<>>
    /\ emitted = <<>>
    /\ conn = [s \in Sockets |-> "new"]
    /\ members = {}
    /\ inbox = [s \in Sockets |-> <<>>]
    /\ sent = <<>>
    /\ users = <<>>
    /\ userQueries = <<>>
    /\ regs = <<>>
    /\ regResponses = EmptyObject
    /\ logins = <<>>
    /\ loginResponses = EmptyObject

\* The entry of a request in the log: the principal and the route it reached
\* ("rejected" when the middleware answered it), the event name its handler
\* records, and the time it arrived.
Req(userId, op, event) ==
    [user |-> userId, op |-> op, event |-> event, at |-> now]

\* Faulty variant of Tick: sessions expire as time passes.
TickExpiring ==
    /\ now + TickMs <= MaxNow
    /\ now' = now + TickMs
    /\ pageVisitLogged' = EmptyObject
    /\ userVisitTimes' = EmptyObject
    /\ UNCHANGED <<queryQueue, activities, responses, reqs, tokens, emitted>>
    /\ UNCHANGED <<relayVars, accountVars>>

\* Time passes between two events of the loop.
Tick ==
    /\ now + TickMs <= MaxNow
    /\ now' = now + TickMs
    /\ UNCHANGED <<pageVisitLogged, userVisitTimes, queryQueue, activities,
                   responses, reqs, tokens, emitted>>
    /\ UNCHANGED <<relayVars, accountVars>>

\* Faulty variant of Logged: the handler never sees the flag.
LoggedNever(userId) == FALSE

\* pageVisitLogged[userId] as a condition: undefined is falsy.
Logged(userId) ==
    userId \in DOMAIN pageVisitLogged /\ pageVisitLogged[userId]

\* Faulty variant of TimeSpent: Math.round in place of Math.floor.
TimeSpentRounded(userId, timestamp) ==
    IF userId \in DOMAIN userVisitTimes
    THEN (timestamp - userVisitTimes[userId].visitTime + 500) \div MsPerSec
    ELSE 0

\* Faulty variant of TimeSpent: no test of visitTime, a missing visit time
\* counts as the epoch.
TimeSpentUnguarded(userId, timestamp) ==
    IF userId \in DOMAIN userVisitTimes
    THEN (timestamp - userVisitTimes[userId].visitTime) \div MsPerSec
    ELSE timestamp \div MsPerSec

\* const timeSpent = visitTime ? Math.floor((timestamp - visitTime) / 1000) : 0
TimeSpent(userId, timestamp) ==
    IF userId \in DOMAIN userVisitTimes
    THEN (timestamp - userVisitTimes[userId].visitTime) \div MsPerSec
    ELSE 0

\* Faulty variant of MarkLogged: the flag is not set in the handler.
MarkLoggedLate(userId) == pageVisitLogged

\* pageVisitLogged[userId] = true
MarkLogged(userId) == Put(pageVisitLogged, userId, TRUE)

\* connection.query(query, [userId, event, JSON.stringify(details)], callback)
Query(id, userId, event, details) ==
    [id |-> id, user_id |-> userId, event_type |-> event, details |-> details]

\* app.post('/api/monitoring/page-visit')
PageVisit(userId) ==
    /\ Len(reqs) < MaxReqs
    /\ LET id == Len(reqs) + 1
           timestamp == now
           event == "Page Visit"
           q == Query(id, userId, event,
                      [action |-> "Page Visit", timestamp |-> timestamp])
       IN  /\ reqs' = Append(reqs, Req(userId, "visit", event))
           /\ IF ~Logged(userId)
              THEN /\ pageVisitLogged' = MarkLogged(userId)
                   /\ userVisitTimes' =
                          Put(userVisitTimes, userId, [visitTime |-> timestamp])
                   /\ queryQueue' = Append(queryQueue, q)
                   /\ emitted' = Append(emitted, q)
                   /\ UNCHANGED responses
              ELSE /\ responses' =
                          Put(responses, id,
                              [status |-> 200,
                               body |-> "Page visit already recorded"])
                   /\ UNCHANGED <<pageVisitLogged, userVisitTimes, queryQueue,
                                  emitted>>
    /\ UNCHANGED <<now, activities>>
    /\ UNCHANGED <<relayVars, accountVars>>

\* app.post('/api/monitoring/page-leave')
PageLeave(userId) ==
    /\ Len(reqs) < MaxReqs
    /\ LET id == Len(reqs) + 1
           timestamp == now
           event == "Page Leave"
           timeSpent == TimeSpent(userId, timestamp)
           q == Query(id, userId, event,
                      [action |-> "Page Leave", timestamp |-> timestamp,
                       timeSpent |-> timeSpent])
       IN  /\ reqs' = Append(reqs, Req(userId, "leave", event))
           /\ userVisitTimes' = Delete(userVisitTimes, userId)
           /\ pageVisitLogged' = Delete(pageVisitLogged, userId)
           /\ queryQueue' = Append(queryQueue, q)
           /\ emitted' = Append(emitted, q)
    /\ UNCHANGED <<now, activities, responses>>
    /\ UNCHANGED <<relayVars, accountVars>>

\* new Date().toLocaleTimeString('en-US', { hour12: false }): the time of day,
\* to the second.
LocaleTimeString(t) == (t \div MsPerSec) % 86400

\* Faulty variant of Activity: an event name already recorded for the user
\* is answered without a second INSERT.
ActivityDeduped(userId, event, details) ==
    /\ Len(reqs) < MaxReqs
    /\ LET id == Len(reqs) + 1
           timestamp == LocaleTimeString(now)
           q == Query(id, userId, event, Put(details, "timestamp", timestamp))
           seen == \E k \in DOMAIN emitted :
                      emitted[k].user_id = userId /\ emitted[k].event_type = event
       IN  /\ reqs' = Append(reqs, Req(userId, "activity", event))
           /\ IF seen
              THEN /\ responses' =
                          Put(responses, id,
                              [status |-> 200, body |-> "Activity data received"])
                   /\ UNCHANGED <<queryQueue, emitted>>
              ELSE /\ queryQueue' = Append(queryQueue, q)
                   /\ emitted' = Append(emitted, q)
                   /\ UNCHANGED responses
    /\ UNCHANGED <<now, pageVisitLogged, userVisitTimes, activities>>
    /\ UNCHANGED <<relayVars, accountVars>>

\* app.post('/api/monitoring/activity'): { ...details, timestamp }
Activity(userId, event, details) ==
    /\ Len(reqs) < MaxReqs
    /\ LET id == Len(reqs) + 1
           timestamp == LocaleTimeString(now)
           updatedDetails == Put(details, "timestamp", timestamp)
           q == Query(id, userId, event, updatedDetails)
       IN  /\ reqs' = Append(reqs, Req(userId, "activity", event))
           /\ queryQueue' = Append(queryQueue, q)
           /\ emitted' = Append(emitted, q)
    /\ UNCHANGED <<now, pageVisitLogged, userVisitTimes, activities, responses>>
    /\ UNCHANGED <<relayVars, accountVars>>

\* Faulty variant of Callback: err is thrown, and the process starts again
\* without its pending INSERTs and its sessions.
CallbackFatal(op, err, recorded) ==
    /\ queryQueue # <<>>
    /\ reqs[Head(queryQueue).id].op = op
    /\ LET q == Head(queryQueue)
       IN  IF err
           THEN /\ queryQueue' = <<>>
                /\ pageVisitLogged' = EmptyObject
                /\ userVisitTimes' = EmptyObject
                /\ responses' =
                       Put(responses, q.id,
                           [status |-> 500, body |-> "Internal Server Error"])
                /\ UNCHANGED activities
           ELSE /\ queryQueue' = Tail(queryQueue)
                /\ activities' = Append(activities, q)
                /\ responses' =
                       Put(responses, q.id, [status |-> 200, body |-> recorded])
                /\ UNCHANGED <<pageVisitLogged, userVisitTimes>>
    /\ UNCHANGED <<now, reqs, tokens, emitted>>
    /\ UNCHANGED <<relayVars, accountVars>>

\* Faulty variant of Callback: the connection serves the newest pending
\* INSERT first.
CallbackNewestFirst(op, err, recorded) ==
    /\ queryQueue # <<>>
    /\ reqs[queryQueue[Len(queryQueue)].id].op = op
    /\ LET q == queryQueue[Len(queryQueue)]
       IN  /\ queryQueue' = SubSeq(queryQueue, 1, Len(queryQueue) - 1)
           /\ IF err
              THEN /\ responses' =
                          Put(responses, q.id,
                              [status |-> 500, body |-> "Internal Server Error"])
                   /\ UNCHANGED activities
              ELSE /\ activities' = Append(activities, q)
                   /\ responses' =
                          Put(responses, q.id, [status |-> 200, body |-> recorded])
    /\ UNCHANGED <<now, pageVisitLogged, userVisitTimes, reqs, tokens, emitted>>
    /\ UNCHANGED <<relayVars, accountVars>>

\* Faulty variant of Callback: the request is answered 200 whatever storage
\* said.
CallbackAlwaysOk(op, err, recorded) ==
    /\ queryQueue # <<>>
    /\ reqs[Head(queryQueue).id].op = op
    /\ LET q == Head(queryQueue)
       IN  /\ queryQueue' = Tail(queryQueue)
           /\ responses' =
                  Put(responses, q.id, [status |-> 200, body |-> recorded])
           /\ IF err
              THEN UNCHANGED activities
              ELSE activities' = Append(activities, q)
    /\ UNCHANGED <<now, pageVisitLogged, userVisitTimes, reqs, tokens, emitted>>
    /\ UNCHANGED <<relayVars, accountVars>>

\* The callback of a connection.query: the connection runs its commands in
\* order, so the callback that runs is the one of the oldest pending INSERT;
\* the INSERT either added the row (err is null) or failed.
Callback(op, err, recorded) ==
    /\ queryQueue # <<>>
    /\ reqs[Head(queryQueue).id].op = op
    /\ LET q == Head(queryQueue)
       IN  /\ queryQueue' = Tail(queryQueue)
           /\ IF err
              THEN /\ responses' =
                          Put(responses, q.id,
                              [status |-> 500, body |-> "Internal Server Error"])
                   /\ UNCHANGED activities
              ELSE /\ activities' = Append(activities, q)
                   /\ responses' =
                          Put(responses, q.id, [status |-> 200, body |-> recorded])
    /\ UNCHANGED <<now, pageVisitLogged, userVisitTimes, reqs, tokens, emitted>>
    /\ UNCHANGED <<relayVars, accountVars>>

\* Faulty variant of PageVisitCallback: on err the session is rolled back.
PageVisitCallbackRollback(err) ==
    /\ queryQueue # <<>>
    /\ reqs[Head(queryQueue).id].op = "visit"
    /\ LET q == Head(queryQueue)
       IN  /\ queryQueue' = Tail(queryQueue)
           /\ IF err
              THEN /\ responses' =
                          Put(responses, q.id,
                              [status |-> 500, body |-> "Internal Server Error"])
                   /\ pageVisitLogged' = Delete(pageVisitLogged, q.user_id)
                   /\ userVisitTimes' = Delete(userVisitTimes, q.user_id)
                   /\ UNCHANGED activities
              ELSE /\ activities' = Append(activities, q)
                   /\ responses' =
                          Put(responses, q.id,
                              [status |-> 200, body |-> "Page visit recorded"])
                   /\ UNCHANGED <<pageVisitLogged, userVisitTimes>>
    /\ UNCHANGED <<now, reqs, tokens, emitted>>
    /\ UNCHANGED <<relayVars, accountVars>>

\* (err) => { ... } of page-visit
PageVisitCallback(err) == Callback("visit", err, "Page visit recorded")

\* Faulty variant of PageLeaveCallback: on err the session is put back.
PageLeaveCallbackRestore(err) ==
    /\ queryQueue # <<>>
    /\ reqs[Head(queryQueue).id].op = "leave"
    /\ LET q == Head(queryQueue)
       IN  /\ queryQueue' = Tail(queryQueue)
           /\ IF err
              THEN /\ responses' =
                          Put(responses, q.id,
                              [status |-> 500, body |-> "Internal Server Error"])
                   /\ pageVisitLogged' = Put(pageVisitLogged, q.user_id, TRUE)
                   /\ userVisitTimes' =
                          Put(userVisitTimes, q.user_id,
                              [visitTime |-> q.details.timestamp
                                             - q.details.timeSpent * MsPerSec])
                   /\ UNCHANGED activities
              ELSE /\ activities' = Append(activities, q)
                   /\ responses' =
                          Put(responses, q.id,
                              [status |-> 200, body |-> "Page leave recorded"])
                   /\ UNCHANGED <<pageVisitLogged, userVisitTimes>>
    /\ UNCHANGED <<now, reqs, tokens, emitted>>
    /\ UNCHANGED <<relayVars, accountVars>>

\* (err) => { ... } of page-leave
PageLeaveCallback(err) == Callback("leave", err, "Page leave recorded")

\* (err) => { ... } of activity
ActivityCallback(err) == Callback("activity", err, "Activity data received")

\* The token of a request: absent (no Authorization header, or one without a
\* second word), or a JWT naming a user id that jwt.verify accepts or not
\* (bad signature, expired).
NoToken == [present |-> FALSE, id |-> "nobody", valid |-> FALSE]
GoodTokens == {[present |-> TRUE, id |-> u, valid |-> TRUE] : u \in Users}
BadTokens == {NoToken} \cup {[present |-> TRUE, id |-> u, valid |-> FALSE] : u \in Users}
Tokens == GoodTokens \cup BadTokens

\* Faulty variant of Verified: the token is decoded, not verified.
VerifiedAlways(token) == TRUE

\* jwt.verify(token, process.env.JWT_SECRET, (err, user) => ...) gives no err.
Verified(token) == token.valid

\* res.sendStatus(status): the request ends in the middleware.
SendStatus(status, body) ==
    /\ Len(reqs) < MaxReqs
    /\ reqs' = Append(reqs, Req("nobody", "rejected", "none"))
    /\ responses' = Put(responses, Len(reqs) + 1, [status |-> status, body |-> body])
    /\ UNCHANGED <<now, pageVisitLogged, userVisitTimes, queryQueue, activities,
                   emitted>>
    /\ UNCHANGED <<relayVars, accountVars>>

\* authenticateToken, mounted on /api/monitoring: what the middleware does
\* with the request, answer it 401 or 403, or call next() with req.user = the
\* payload of the token.
AuthenticateToken(token) ==
    IF ~token.present
    THEN "Unauthorized"
    ELSE IF ~Verified(token) THEN "Forbidden" ELSE "next"

\* The answer of the middleware to a request it does not pass on.
Reject(token) ==
    IF AuthenticateToken(token) = "Unauthorized"
    THEN SendStatus(401, "Unauthorized")
    ELSE SendStatus(403, "Forbidden")

\* POST /api/monitoring/page-visit
PostPageVisit(token) ==
    /\ tokens' = Append(tokens, token)
    /\ IF AuthenticateToken(token) = "next"
       THEN PageVisit(token.id)
       ELSE Reject(token)

\* POST /api/monitoring/page-leave
PostPageLeave(token) ==
    /\ tokens' = Append(tokens, token)
    /\ IF AuthenticateToken(token) = "next"
       THEN PageLeave(token.id)
       ELSE Reject(token)

\* POST /api/monitoring/activity with body { event, details }
PostActivity(token, event, details) ==
    /\ tokens' = Append(tokens, token)
    /\ IF AuthenticateToken(token) = "next"
       THEN Activity(token.id, event, details)
       ELSE Reject(token)

\* The three routes, called with tokens of the set T.
Monitoring(T) ==
    \/ \E token \in T : PostPageVisit(token)
    \/ \E token \in T : PostPageLeave(token)
    \/ \E token \in T, event \in ActivityEvents, details \in ActivityDetails :
           PostActivity(token, event, details)

\* The storage callbacks.
Callbacks ==
    \/ \E err \in BOOLEAN : PageVisitCallback(err)
    \/ \E err \in BOOLEAN : PageLeaveCallback(err)
    \/ \E err \in BOOLEAN : ActivityCallback(err)

\* The tracker with every kind of client, authenticated or not.
NextMonitoring == Tick \/ Monitoring(Tokens) \/ Callbacks

NextTracker ==
    \/ Tick
    \/ \E token \in GoodTokens : PostPageVisit(token)
    \/ \E token \in GoodTokens : PostPageLeave(token)
    \/ \E token \in GoodTokens, event \in ActivityEvents,
          details \in ActivityDetails : PostActivity(token, event, details)
    \/ \E err \in BOOLEAN : PageVisitCallback(err)
    \/ \E err \in BOOLEAN : PageLeaveCallback(err)
    \/ \E err \in BOOLEAN : ActivityCallback(err)

\* --------------------------------------------------------------- accounts

\* No res.status call was made for the request: an exception left the
\* callback.
NoResponse == 0

\* bcrypt.hashSync and bcrypt.compareSync throw "Illegal arguments" unless
\* their arguments are strings.
IsString(s) == s # Missing

\* bcrypt.hashSync(password, 10): the hash is not the password.
HashSync(password) == [bcrypt |-> password]

\* Faulty variant of CompareSync: every string matches.
CompareSyncAny(s, hash) == TRUE

\* bcrypt.compareSync(s, hash), for a string s.
CompareSync(s, hash) == hash = HashSync(s)

\* An exception has left a callback of the controller: nothing catches it
\* and the process has ended.
Crashed ==
    \/ \E r \in DOMAIN regResponses : regResponses[r] = NoResponse
    \/ \E l \in DOMAIN loginResponses : loginResponses[l].status = NoResponse

\* SELECT * FROM users WHERE username = ?: the rows of that username.
FindUserByUsername(username) ==
    {k \in DOMAIN users : users[k].username = username}

\* register (authController.js): the handler only hands the SELECT of
\* findUserByUsername to the connection.
Register(username, password) ==
    /\ ~Crashed
    /\ Len(regs) < MaxRegs
    /\ regs' = Append(regs, [username |-> username, password |-> password])
    /\ userQueries' = Append(userQueries,
                             [kind |-> "select", call |-> Len(regs) + 1,
                              username |-> username, password |-> password])
    /\ UNCHANGED <<users, regResponses, logins, loginResponses>>
    /\ UNCHANGED <<trackerVars, relayVars>>

\* (err, result) => { ... } of findUserByUsername in register: 500 on err,
\* 400 when the SELECT found the username, and otherwise the password is
\* hashed and createUser hands its INSERT to the connection.
RegisterFound(err) ==
    /\ ~Crashed
    /\ userQueries # <<>>
    /\ Head(userQueries).kind = "select"
    /\ LET q == Head(userQueries)
           result == FindUserByUsername(q.username)
       IN  IF err
           THEN /\ regResponses' = Put(regResponses, q.call, 500)
                /\ userQueries' = Tail(userQueries)
           ELSE IF result # {}
                THEN /\ regResponses' = Put(regResponses, q.call, 400)
                     /\ userQueries' = Tail(userQueries)
                ELSE IF ~IsString(q.password)
                     THEN /\ regResponses' =
                                 Put(regResponses, q.call, NoResponse)
                          /\ userQueries' = Tail(userQueries)
                     ELSE /\ userQueries' =
                                 Append(Tail(userQueries),
                                        [kind |-> "insert", call |-> q.call,
                                         username |-> q.username,
                                         password |-> HashSync(q.password)])
                          /\ UNCHANGED regResponses
    /\ UNCHANGED <<users, regs, logins, loginResponses>>
    /\ UNCHANGED <<trackerVars, relayVars>>

\* (err) => { ... } of createUser in register: 500 on err, else the row is
\* in the table and the call is answered 201. The table's definition is not
\* part of the program: whether the database refuses a second row of a
\* username is not known, so either outcome is possible.
RegisterCreated(err) ==
    /\ ~Crashed
    /\ userQueries # <<>>
    /\ Head(userQueries).kind = "insert"
    /\ LET q == Head(userQueries)
       IN  /\ userQueries' = Tail(userQueries)
           /\ IF err
              THEN /\ regResponses' = Put(regResponses, q.call, 500)
                   /\ UNCHANGED users
              ELSE /\ users' = Append(users, [username |-> q.username,
                                              password |-> q.password,
                                              reg |-> q.call])
                   /\ regResponses' = Put(regResponses, q.call, 201)
    /\ UNCHANGED <<regs, logins, loginResponses>>
    /\ UNCHANGED <<trackerVars, relayVars>>

\* The responses of login.
InternalServerError ==
    [status |-> 500, message |-> "Internal Server Error", id |-> 0]
Invalid ==
    [status |-> 400, message |-> "Invalid username or password", id |-> 0]
Thrown == [status |-> NoResponse, message |-> "Illegal arguments", id |-> 0]

\* res.json({ token }) with token = jwt.sign({ id: user.id }, ...)
Token(id) == [status |-> 200, message |-> "token", id |-> id]

\* login (authController.js): the handler only hands the SELECT of
\* findUserByUsername to the connection.
Login(username, password) ==
    /\ ~Crashed
    /\ Len(logins) < MaxLogins
    /\ logins' = Append(logins, [username |-> username, password |-> password])
    /\ userQueries' = Append(userQueries,
                             [kind |-> "login", call |-> Len(logins) + 1,
                              username |-> username, password |-> password])
    /\ UNCHANGED <<users, regs, regResponses, loginResponses>>
    /\ UNCHANGED <<trackerVars, relayVars>>

\* (err, result) => { ... } of findUserByUsername in login. result[0] is the
\* first row the SELECT returned; the query has no ORDER BY, so with several
\* rows of the username it may be any of them.
LoginFound(err) ==
    /\ ~Crashed
    /\ userQueries # <<>>
    /\ Head(userQueries).kind = "login"
    /\ LET q == Head(userQueries)
           result == FindUserByUsername(q.username)
       IN  /\ userQueries' = Tail(userQueries)
           /\ IF err
              THEN loginResponses' =
                       Put(loginResponses, q.call, InternalServerError)
              ELSE IF result = {}
                   THEN loginResponses' = Put(loginResponses, q.call, Invalid)
                   ELSE \E id \in result :
                          loginResponses' =
                              Put(loginResponses, q.call,
                                  IF ~IsString(q.password)
                                  THEN Thrown
                                  ELSE IF CompareSync(q.password,
                                                      users[id].password)
                                       THEN Token(id)
                                       ELSE Invalid)
    /\ UNCHANGED <<users, regs, regResponses, logins>>
    /\ UNCHANGED <<trackerVars, relayVars>>

NextAccounts ==
    \/ \E username \in Usernames, password \in Passwords \cup {Missing} :
           Register(username, password)
    \/ \E err \in BOOLEAN : RegisterFound(err)
    \/ \E err \in BOOLEAN : RegisterCreated(err)

\* The calls of register and login followed together.
Calls == Len(regs) + Len(logins)

NextLogin ==
    \/ \E username \in Usernames, password \in Passwords \cup {Missing} :
           Calls < MaxCalls /\ Register(username, password)
    \/ \E err \in BOOLEAN : RegisterFound(err)
    \/ \E err \in BOOLEAN : RegisterCreated(err)
    \/ \E username \in Usernames, password \in Passwords \cup {Missing} :
           Calls < MaxCalls /\ Login(username, password)
    \/ \E err \in BOOLEAN : LoginFound(err)

\* ------------------------------------------------------------------ relay

\* The currently connected peers: the sockets between their connection and
\* their disconnect. The transport of a "broken" one has failed and the
\* server has not noticed yet.
Connected == {s \in Sockets : conn[s] \in {"open", "broken"}}

\* Faulty variant of Join: the socket is not added.
JoinNothing(s) == members

\* io.on('connection', (socket) => ...): the socket has joined the namespace.
Join(s) == members \cup {s}

Connect(s) ==
    /\ conn[s] = "new"
    /\ conn' = [conn EXCEPT ![s] = "open"]
    /\ members' = Join(s)
    /\ UNCHANGED <<inbox, sent>>
    /\ UNCHANGED <<trackerVars, accountVars>>

\* Faulty variant of Leave: the socket stays in the namespace.
LeaveStale(s) == members

\* socket.on('disconnect'): the socket has left the namespace; the handler
\* only logs.
Leave(s) == members \ {s}

\* Faulty variant of Disconnect: the sessions are closed with the socket.
DisconnectEndsSessions(s) ==
    /\ conn[s] \in {"open", "broken"}
    /\ conn' = [conn EXCEPT ![s] = "closed"]
    /\ members' = Leave(s)
    /\ pageVisitLogged' = EmptyObject
    /\ userVisitTimes' = EmptyObject
    /\ UNCHANGED <<inbox, sent>>
    /\ UNCHANGED <<now, queryQueue, activities, responses, reqs, tokens, emitted>>
    /\ UNCHANGED accountVars

\* Faulty variant of Disconnect: the remaining peers are told of the
\* departure.
DisconnectNotifying(s) ==
    /\ conn[s] \in {"open", "broken"}
    /\ conn' = [conn EXCEPT ![s] = "closed"]
    /\ members' = Leave(s)
    /\ inbox' = [t \in Sockets |->
                    IF t \in Leave(s)
                    THEN Append(inbox[t],
                                [id |-> 0, event |-> "peer-left", data |-> s])
                    ELSE inbox[t]]
    /\ UNCHANGED sent
    /\ UNCHANGED <<trackerVars, accountVars>>

Disconnect(s) ==
    /\ conn[s] \in {"open", "broken"}
    /\ conn' = [conn EXCEPT ![s] = "closed"]
    /\ members' = Leave(s)
    /\ UNCHANGED <<inbox, sent>>
    /\ UNCHANGED <<trackerVars, accountVars>>

\* Faulty variant of Broadcast: io.emit, which reaches the sender too.
BroadcastAll(s) == members

\* socket.broadcast: every socket of the namespace except the sender.
Broadcast(s) == members \ {s}

\* Faulty variant of Delivered: the first write that fails throws, and the
\* message reaches nobody.
DeliveredUntilFailure(s) ==
    IF \A t \in Broadcast(s) : conn[t] # "broken" THEN Broadcast(s) ELSE {}

\* The sockets a broadcast of s reaches: the write to a socket whose
\* transport has failed is lost, the others are written.
Delivered(s) == {t \in Broadcast(s) : conn[t] # "broken"}

\* socket.on(event, (data) => ...): the server has received event from s.
Receive(s, event, data) ==
    /\ conn[s] = "open"
    /\ Len(sent) < MaxMsgs
    /\ sent' = Append(sent, [from |-> s, event |-> event, data |-> data,
                             peers |-> Connected,
                             failed |-> {t \in Connected : conn[t] = "broken"}])

\* Faulty variant of BroadcastEmit: the message overtakes the ones the
\* recipient has been sent.
BroadcastEmitOvertaking(s, event, data) ==
    /\ inbox' = [t \in Sockets |->
                    IF t \in Delivered(s)
                    THEN <<[id |-> Len(sent) + 1, event |-> event,
                            data |-> data]>> \o inbox[t]
                    ELSE inbox[t]]
    /\ UNCHANGED <<conn, members>>
    /\ UNCHANGED <<trackerVars, accountVars>>

\* socket.broadcast.emit(event, data)
BroadcastEmit(s, event, data) ==
    /\ inbox' = [t \in Sockets |->
                    IF t \in Delivered(s)
                    THEN Append(inbox[t],
                                [id |-> Len(sent) + 1, event |-> event,
                                 data |-> data])
                    ELSE inbox[t]]
    /\ UNCHANGED <<conn, members>>
    /\ UNCHANGED <<trackerVars, accountVars>>

\* Faulty variant of Answer: the answer is emitted as an offer.
AnswerAsOffer(s, answer) ==
    Receive(s, "answer", answer) /\ BroadcastEmit(s, "offer", answer)

\* socket.on('offer', (offer) => ...)
Offer(s, offer) ==
    Receive(s, "offer", offer) /\ BroadcastEmit(s, "offer", offer)

\* Faulty variant of Answer: an answer is relayed only once an offer has
\* been relayed.
AnswerAfterOffer(s, answer) ==
    /\ Receive(s, "answer", answer)
    /\ IF \E i \in DOMAIN sent : sent[i].event = "offer"
       THEN BroadcastEmit(s, "answer", answer)
       ELSE /\ UNCHANGED <<conn, members, inbox>>
            /\ UNCHANGED <<trackerVars, accountVars>>

\* socket.on('answer', (answer) => ...)
Answer(s, answer) ==
    Receive(s, "answer", answer) /\ BroadcastEmit(s, "answer", answer)

\* socket.on('ice-candidate', (candidate) => ...)
IceCandidate(s, candidate) ==
    Receive(s, "ice-candidate", candidate)
    /\ BroadcastEmit(s, "ice-candidate", candidate)

\* The transport of a connected socket fails (the network drops); the server
\* learns of it later, as a disconnect.
TransportFail(s) ==
    /\ conn[s] = "open"
    /\ conn' = [conn EXCEPT ![s] = "broken"]
    /\ UNCHANGED <<members, inbox, sent>>
    /\ UNCHANGED <<trackerVars, accountVars>>

NextRelay ==
    \/ \E s \in Sockets : Connect(s)
    \/ \E s \in Sockets : Disconnect(s)
    \/ \E s \in Sockets, offer \in Payloads : Offer(s, offer)
    \/ \E s \in Sockets, answer \in Payloads : Answer(s, answer)
    \/ \E s \in Sockets, candidate \in Payloads : IceCandidate(s, candidate)

\* The relay with transports that may fail; one payload is enough to tell
\* who was reached.
FaultPayloads == {"sdp1"}
NextRelayFaults ==
    \/ \E s \in Sockets : Connect(s)
    \/ \E s \in Sockets : Disconnect(s)
    \/ \E s \in Sockets : TransportFail(s)
    \/ \E s \in Sockets, offer \in FaultPayloads : Offer(s, offer)
    \/ \E s \in Sockets, answer \in FaultPayloads : Answer(s, answer)
    \/ \E s \in Sockets, candidate \in FaultPayloads : IceCandidate(s, candidate)

Next ==
    \/ NextTracker
    \/ NextRelay
    \/ NextAccounts
    \/ \E username \in Usernames, password \in Passwords \cup {Missing} :
           Login(username, password)
    \/ \E err \in BOOLEAN : LoginFound(err)

\* The session tracker alone, the relay alone, and the whole server.
SpecTracker == Init /\ [][NextTracker]_vars
SpecMonitoring == Init /\ [][NextMonitoring]_vars
\* The tracker with a storage that answers every query handed to it.
SpecTrackerFair == Init /\ [][NextTracker]_vars /\ WF_vars(Callbacks)
SpecRelay == Init /\ [][NextRelay]_vars
SpecAccounts == Init /\ [][NextAccounts]_vars
SpecLogin == Init /\ [][NextLogin]_vars
SpecRelayFaults == Init /\ [][NextRelayFaults]_vars
Spec == Init /\ [][Next]_vars

\* The whole server, with every kind of client and transports that may fail,
\* followed through its first MaxEvents requests, relayed messages and
\* connections.
Events == Len(reqs) + Len(sent) + Cardinality({s \in Sockets : conn[s] # "new"})
Budget == Events < MaxEvents
NextServer ==
    \/ Tick
    \/ \E token \in Tokens : Budget /\ PostPageVisit(token)
    \/ \E token \in Tokens : Budget /\ PostPageLeave(token)
    \/ \E token \in Tokens, event \in ActivityEvents, details \in ActivityDetails :
           Budget /\ PostActivity(token, event, details)
    \/ \E err \in BOOLEAN : PageVisitCallback(err)
    \/ \E err \in BOOLEAN : PageLeaveCallback(err)
    \/ \E err \in BOOLEAN : ActivityCallback(err)
    \/ \E s \in Sockets : Budget /\ Connect(s)
    \/ \E s \in Sockets : Disconnect(s)
    \/ \E s \in Sockets : TransportFail(s)
    \/ \E s \in Sockets, offer \in Payloads : Budget /\ Offer(s, offer)
    \/ \E s \in Sockets, answer \in Payloads : Budget /\ Answer(s, answer)
    \/ \E s \in Sockets, candidate \in Payloads :
           Budget /\ IceCandidate(s, candidate)
SpecServer == Init /\ [][NextServer]_vars

\* ---------------------------------------------------- reading the logs

\* The page-visit and page-leave requests of principal u, by request id.
Lifecycle(u) ==
    {i \in DOMAIN reqs : reqs[i].user = u /\ reqs[i].op \in {"visit", "leave"}}

Max(S) == CHOOSE x \in S : \A y \in S : y <= x
Min(S) == CHOOSE x \in S : \A y \in S : x <= y

\* The lifecycle request of u before request i, 0 when there is none.
Prev(u, i) ==
    LET before == {k \in Lifecycle(u) : k < i}
    IN  IF before = {} THEN 0 ELSE Max(before)

\* By the calls alone, u has a session open when request i arrives: the
\* lifecycle request of u before i is a visit.
OpenBefore(u, i) == Prev(u, i) # 0 /\ reqs[Prev(u, i)].op = "visit"

\* Request i opens a session: a visit of a principal with no session open.
Opening(i) == reqs[i].op = "visit" /\ ~OpenBefore(reqs[i].user, i)

\* The visit that opened the session which is open when request i arrives.
Opener(u, i) == Max({k \in Lifecycle(u) : k < i /\ Opening(k)})

\* The INSERTs request i handed to connection.query, by position in emitted.
RecordsOf(i) == {k \in DOMAIN emitted : emitted[k].id = i}

\* The INSERTs of the requests in I whose event_type is event.
Records(I, event) ==
    {k \in DOMAIN emitted : emitted[k].id \in I /\ emitted[k].event_type = event}

\* The row of request i is in the table: storage accepted its INSERT.
Stored(i) == \E k \in DOMAIN activities : activities[k].id = i

\* The visits of u since the last leave of u.
VisitsSinceLeave(u) ==
    {i \in Lifecycle(u) : reqs[i].op = "visit"
                            /\ \A k \in Lifecycle(u) : k > i => reqs[k].op = "visit"}

\* The requests of u from the opening o up to the next opening of u.
Session(u, o) ==
    {i \in Lifecycle(u) :
        i >= o /\ \A k \in Lifecycle(u) : (o < k /\ k <= i) => ~Opening(k)}

\* --------------------------------------------------------------- claims

\* C1: two page-visit requests of a principal in succession, the first one
\* finding no session open and no page-leave between them, produce exactly
\* one "Page Visit" record: the first emits one and the second emits none.
C1_TwoVisitsOneRecord ==
    \A u \in Users : \A i, j \in Lifecycle(u) :
        (/\ reqs[i].op = "visit" /\ reqs[j].op = "visit"
         /\ Prev(u, j) = i
         /\ ~OpenBefore(u, i))
        => /\ Cardinality(RecordsOf(i)) = 1
           /\ \A k \in RecordsOf(i) : emitted[k].event_type = "Page Visit"
           /\ RecordsOf(j) = {}
           /\ Cardinality(Records({i, j}, "Page Visit")) = 1

\* Two visits in succession, both answered.
C1_Witness ==
    \E u \in Users : \E i, j \in Lifecycle(u) :
        /\ reqs[i].op = "visit" /\ reqs[j].op = "visit"
        /\ Prev(u, j) = i /\ ~OpenBefore(u, i)
        /\ i \in DOMAIN responses /\ responses[i].body = "Page visit recorded"
        /\ j \in DOMAIN responses /\ responses[j].body = "Page visit already recorded"

\* C2: however the page-visit requests of one principal interleave with one
\* another and with the pending storage callbacks, exactly one of them
\* passes the check: one session is open, it is the one of the earliest
\* request, and exactly one "Page Visit" record was emitted.
C2_ConcurrentVisitsOneSession ==
    \A u \in Users :
        LET V == VisitsSinceLeave(u)
        IN  V # {} =>
              /\ u \in DOMAIN pageVisitLogged /\ pageVisitLogged[u]
              /\ u \in DOMAIN userVisitTimes
              /\ userVisitTimes[u].visitTime = reqs[Min(V)].at
              /\ Cardinality({i \in V : RecordsOf(i) # {}}) = 1
              /\ Cardinality(Records(V, "Page Visit")) = 1

\* Three visits of one principal arrive while the INSERT of the first is
\* still pending.
C2_Witness ==
    \E u \in Users :
        /\ Cardinality(VisitsSinceLeave(u)) = 3
        /\ queryQueue # <<>>
        /\ Head(queryQueue).id = Min(VisitsSinceLeave(u))

\* C3 as stated: from the opening of one session of a principal to the
\* opening of the next, at most one "Page Visit" and at most one "Page Leave"
\* record are emitted for it.
C3_AtMostOncePerSession ==
    \A u \in Users : \A o \in Lifecycle(u) :
        Opening(o) =>
            /\ Cardinality(Records(Session(u, o), "Page Visit")) <= 1
            /\ Cardinality(Records(Session(u, o), "Page Leave")) <= 1

\* C3 as the handlers have it: from the opening of one session of a
\* principal to the opening of the next, exactly one "Page Visit" record is
\* emitted for it; every page-leave emits its own "Page Leave" record, and
\* all of them but the first carry timeSpent = 0.
C3_VisitOncePerSession ==
    \A u \in Users : \A o \in Lifecycle(u) :
        Opening(o) =>
            LET S == Session(u, o)
                leaves == {i \in S : reqs[i].op = "leave"}
            IN  /\ Cardinality(Records(S, "Page Visit")) <= 1
                /\ Cardinality(Records(S, "Page Leave")) = Cardinality(leaves)
                /\ \A i \in leaves :
                      /\ Cardinality(RecordsOf(i)) = 1
                      /\ i # Min(leaves) =>
                            \A k \in RecordsOf(i) : emitted[k].details.timeSpent = 0

\* A visit and two leaves of one principal: two "Page Leave" records in one
\* session, the first with a second on the page.
C3_Witness ==
    \E u \in Users : \E o \in Lifecycle(u) :
        /\ Opening(o)
        /\ Cardinality(Records(Session(u, o), "Page Leave")) = 2
        /\ \E k \in Records(Session(u, o), "Page Leave") :
               emitted[k].details.timeSpent = 1

\* The sessions of u that were created and not closed since: the visits of u
\* since its last leave that wrote userVisitTimes, which are the ones that
\* issued an INSERT.
OpenSessions(u) == {i \in VisitsSinceLeave(u) : RecordsOf(i) # {}}

\* The step handles a page-visit request of u.
VisitStep(u) ==
    /\ Len(reqs') = Len(reqs) + 1
    /\ reqs'[Len(reqs')].user = u
    /\ reqs'[Len(reqs')].op = "visit"
    /\ reqs'[Len(reqs')].at = now

\* C4: a principal has at most one open session in every state, and
\* userVisitTimes gets an entry, or a new visit time, for a principal only
\* in a page-visit of that principal that finds neither map holding it.
C4_OneSessionPerPrincipal ==
    /\ [](\A u \in Users :
            /\ Cardinality(OpenSessions(u)) <= 1
            /\ u \in DOMAIN userVisitTimes <=> OpenSessions(u) # {})
    /\ [][\A u \in Users :
            (/\ u \in DOMAIN userVisitTimes'
             /\ \/ u \notin DOMAIN userVisitTimes
                \/ userVisitTimes'[u] # userVisitTimes[u])
            => /\ VisitStep(u)
               /\ u \notin DOMAIN userVisitTimes
               /\ u \notin DOMAIN pageVisitLogged
               /\ userVisitTimes'[u].visitTime = now]_vars

\* Both principals have a session open, one of them after a second visit
\* at a later time that left its visit time alone.
C4_Witness ==
    /\ DOMAIN userVisitTimes = Users
    /\ \E u \in Users :
          /\ Cardinality(VisitsSinceLeave(u)) = 2
          /\ userVisitTimes[u].visitTime < reqs[Max(VisitsSinceLeave(u))].at

\* C5: a page-leave at t1 of a principal whose session was opened by a
\* visit at t0 emits one "Page Leave" record whose timeSpent is the number of
\* whole seconds in t1 - t0, t0 being the time of the visit that opened the
\* session and not the time of a later visit.
C5_TimeSpentFloor ==
    \A u \in Users : \A j \in Lifecycle(u) :
        (reqs[j].op = "leave" /\ OpenBefore(u, j)) =>
            LET elapsed == reqs[j].at - reqs[Opener(u, j)].at
            IN  /\ Cardinality(RecordsOf(j)) = 1
                /\ \A k \in RecordsOf(j) :
                      /\ emitted[k].event_type = "Page Leave"
                      /\ emitted[k].details.timeSpent * MsPerSec <= elapsed
                      /\ elapsed < (emitted[k].details.timeSpent + 1) * MsPerSec

\* A visit, a second visit half a second later and a leave a second after
\* that: 1500 ms on the page, recorded as 1 second.
C5_Witness ==
    \E u \in Users : \E j \in Lifecycle(u) :
        /\ reqs[j].op = "leave" /\ OpenBefore(u, j)
        /\ Prev(u, j) # Opener(u, j)
        /\ reqs[Prev(u, j)].at > reqs[Opener(u, j)].at
        /\ reqs[j].at - reqs[Opener(u, j)].at = 1500
        /\ \E k \in RecordsOf(j) : emitted[k].details.timeSpent = 1

\* C6: a page-leave of a principal with no session open (it never visited,
\* or it left already) emits one "Page Leave" record with timeSpent = 0, and
\* it is answered 200 when storage accepted the INSERT; it is answered
\* with an error only when storage rejected it.
C6_LeaveWithoutSession ==
    \A u \in Users : \A j \in Lifecycle(u) :
        (reqs[j].op = "leave" /\ ~OpenBefore(u, j)) =>
            /\ Cardinality(RecordsOf(j)) = 1
            /\ \A k \in RecordsOf(j) :
                  /\ emitted[k].event_type = "Page Leave"
                  /\ emitted[k].user_id = u
                  /\ emitted[k].details.timeSpent = 0
            /\ Stored(j) =>
                  /\ j \in DOMAIN responses
                  /\ responses[j] = [status |-> 200, body |-> "Page leave recorded"]
            /\ (j \in DOMAIN responses /\ responses[j].status # 200) => ~Stored(j)

\* A leave of a principal that never visited and, later, a second leave of
\* it, both accepted by storage and answered 200.
C6_Witness ==
    \E u \in Users : \E i, j \in Lifecycle(u) :
        /\ reqs[i].op = "leave" /\ Prev(u, i) = 0
        /\ reqs[j].op = "leave" /\ Prev(u, j) = i
        /\ reqs[j].at > 0
        /\ Stored(i) /\ Stored(j)
        /\ responses[i].status = 200 /\ responses[j].status = 200

\* C7: the page-visit of a principal that follows a page-leave of it emits a
\* "Page Visit" record and opens a session whose visit time is the time of
\* that visit; it is answered "recorded" once storage accepts the INSERT,
\* never "already recorded".
C7_VisitAfterLeave ==
    \A u \in Users : \A j \in Lifecycle(u) :
        (reqs[j].op = "visit" /\ Prev(u, j) # 0 /\ reqs[Prev(u, j)].op = "leave") =>
            /\ Cardinality(RecordsOf(j)) = 1
            /\ \A k \in RecordsOf(j) :
                  /\ emitted[k].event_type = "Page Visit"
                  /\ emitted[k].details.timestamp = reqs[j].at
            /\ j \in VisitsSinceLeave(u) =>
                  /\ u \in DOMAIN pageVisitLogged /\ pageVisitLogged[u]
                  /\ u \in DOMAIN userVisitTimes
                  /\ userVisitTimes[u].visitTime = reqs[j].at
            /\ Stored(j) =>
                  /\ j \in DOMAIN responses
                  /\ responses[j] = [status |-> 200, body |-> "Page visit recorded"]
            /\ j \in DOMAIN responses =>
                  responses[j].body # "Page visit already recorded"

\* Visit, leave, visit of one principal at three different times: the second
\* session is open with the time of the second visit.
C7_Witness ==
    \E u \in Users : \E j \in Lifecycle(u) :
        /\ reqs[j].op = "visit" /\ Prev(u, j) # 0
        /\ reqs[Prev(u, j)].op = "leave"
        /\ OpenBefore(u, Prev(u, j))
        /\ reqs[Opener(u, Prev(u, j))].at < reqs[Prev(u, j)].at
        /\ reqs[Prev(u, j)].at < reqs[j].at
        /\ u \in DOMAIN userVisitTimes
        /\ userVisitTimes[u].visitTime = reqs[j].at
        /\ Stored(j)

\* The copies of message i (its position in sent) emitted to socket t.
Copies(i, t) == {k \in DOMAIN inbox[t] : inbox[t][k].id = i}

\* The step is the relay receiving a message from socket s.
SendStep(s) ==
    /\ Len(sent') = Len(sent) + 1
    /\ sent'[Len(sent')].from = s

\* C8: a message of any kind from a connected peer is delivered exactly once
\* to every other peer connected when the relay receives it, and to nobody
\* else: not to the sender, not to a socket that is not connected.
C8_BroadcastToOthers ==
    \A i \in DOMAIN sent : \A t \in Sockets :
        Cardinality(Copies(i, t)) =
            IF t \in sent[i].peers \ {sent[i].from} THEN 1 ELSE 0

\* A, B and C are connected; an offer of A has reached B and C, and an
\* answer of B has reached A and C.
C8_Witness ==
    \E i, j \in DOMAIN sent :
        /\ sent[i].from = "A" /\ sent[i].event = "offer"
        /\ sent[i].peers = Sockets
        /\ Copies(i, "A") = {} /\ Copies(i, "B") # {} /\ Copies(i, "C") # {}
        /\ sent[j].from = "B" /\ sent[j].event = "answer"
        /\ sent[j].peers = Sockets
        /\ Copies(j, "B") = {} /\ Copies(j, "A") # {}

\* C9: once a socket has disconnected nothing more is emitted to it; and
\* a peer that sends, whoever else is connected, is emitted nothing itself
\* (no error event) and stays a connected member.
C9_NothingAfterDisconnect ==
    /\ [][\A s \in Sockets : conn[s] = "closed" => inbox'[s] = inbox[s]]_vars
    /\ [][\A s \in Sockets :
            SendStep(s) => /\ inbox'[s] = inbox[s]
                           /\ conn'[s] = "open"
                           /\ s \in members']_vars

\* A and B were connected and B got an offer of A; B disconnected; then A
\* sent an ice-candidate, which reached nobody.
C9_Witness ==
    /\ conn["A"] = "open" /\ conn["B"] = "closed" /\ conn["C"] = "new"
    /\ Len(sent) = 2
    /\ sent[1].from = "A" /\ sent[1].peers = {"A", "B"}
    /\ sent[2].from = "A" /\ sent[2].event = "ice-candidate"
    /\ sent[2].peers = {"A"}
    /\ Copies(1, "B") # {}
    /\ \A t \in Sockets : Copies(2, t) = {}

\* C10: the sockets the relay broadcasts to are exactly the sockets that are
\* connected: each connect adds its socket, each disconnect removes it.
C10_MembershipIsConnected ==
    /\ members = Connected
    /\ \A s \in Sockets : conn[s] # "open" => s \notin members

\* One socket is connected, one has disconnected, one never connected.
C10_Witness ==
    /\ conn["A"] = "closed" /\ conn["B"] = "open" /\ conn["C"] = "new"
    /\ members = {"B"}

\* The INSERT of request i is still waiting for its callback.
Pending(i) == \E k \in DOMAIN queryQueue : queryQueue[k].id = i

\* Storage rejected the INSERT of request i.
Rejected(i) == RecordsOf(i) # {} /\ ~Pending(i) /\ ~Stored(i)

\* The step handles a page-leave request of u.
LeaveStep(u) ==
    /\ Len(reqs') = Len(reqs) + 1
    /\ reqs'[Len(reqs')].user = u
    /\ reqs'[Len(reqs')].op = "leave"

\* The step handles an activity request of u.
ActivityStep(u) ==
    /\ Len(reqs') = Len(reqs) + 1
    /\ reqs'[Len(reqs')].user = u
    /\ reqs'[Len(reqs')].op = "activity"

AlreadyRecorded == [status |-> 200, body |-> "Page visit already recorded"]

\* C11: when storage rejects the INSERT of a session-creating page-visit the
\* caller is answered 500, the session stays open with the time of that
\* visit until a page-leave, and every further page-visit of the principal
\* before a page-leave is answered 200 "already recorded" and emits nothing.
C11_RejectedVisitKeepsSession ==
    \A u \in Users : \A i \in Lifecycle(u) :
        (reqs[i].op = "visit" /\ Rejected(i)) =>
            /\ i \in DOMAIN responses
            /\ responses[i] = [status |-> 500, body |-> "Internal Server Error"]
            /\ i \in VisitsSinceLeave(u) =>
                  /\ u \in DOMAIN pageVisitLogged /\ pageVisitLogged[u]
                  /\ u \in DOMAIN userVisitTimes
                  /\ userVisitTimes[u].visitTime = reqs[i].at
            /\ \A j \in Lifecycle(u) :
                  (/\ j > i
                   /\ \A k \in Lifecycle(u) : (i < k /\ k <= j) => reqs[k].op = "visit")
                  => /\ RecordsOf(j) = {}
                     /\ j \in DOMAIN responses
                     /\ responses[j] = AlreadyRecorded

\* A visit answered 500, then a later visit of the same principal answered
\* "already recorded"; nothing is in the table.
C11_Witness ==
    \E u \in Users : \E i, j \in Lifecycle(u) :
        /\ reqs[i].op = "visit" /\ Rejected(i)
        /\ reqs[j].op = "visit" /\ Prev(u, j) = i
        /\ reqs[j].at > reqs[i].at
        /\ responses[i].status = 500
        /\ responses[j] = AlreadyRecorded
        /\ activities = <<>>
        /\ u \in DOMAIN userVisitTimes

\* C12: a page-visit of a principal whose session is open changes neither
\* map, hands nothing to storage and is answered 200 at once.
C12_VisitOnOpenSessionIsNoOp ==
    [][\A u \in Users :
        (VisitStep(u) /\ u \in DOMAIN pageVisitLogged /\ pageVisitLogged[u])
        => /\ UNCHANGED <<pageVisitLogged, userVisitTimes>>
           /\ UNCHANGED <<emitted, queryQueue, activities>>
           /\ responses' = Put(responses, Len(reqs'), AlreadyRecorded)]_vars

\* The session of a principal was recorded by storage; a second visit, at a
\* later time, was answered "already recorded" and the visit time is still
\* the first one.
C12_Witness ==
    \E u \in Users : \E j \in Lifecycle(u) :
        /\ reqs[j].op = "visit" /\ OpenBefore(u, j)
        /\ j \in VisitsSinceLeave(u)
        /\ Stored(Opener(u, j))
        /\ responses[j] = AlreadyRecorded
        /\ reqs[j].at > reqs[Opener(u, j)].at
        /\ userVisitTimes[u].visitTime = reqs[Opener(u, j)].at
        /\ Len(emitted) = 1

\* C13: every page-leave leaves its principal without a session and hands
\* exactly one "Page Leave" INSERT of that principal to storage; on a
\* principal without a session it changes neither map, so a second
\* page-leave in a row leaves the session state as the first one left it.
C13_LeaveClears ==
    /\ [](\A u \in Users :
            (Lifecycle(u) # {} /\ reqs[Max(Lifecycle(u))].op = "leave")
            => u \notin DOMAIN userVisitTimes /\ u \notin DOMAIN pageVisitLogged)
    /\ [][\A u \in Users :
            LeaveStep(u) =>
              /\ u \notin DOMAIN userVisitTimes'
              /\ u \notin DOMAIN pageVisitLogged'
              /\ Len(emitted') = Len(emitted) + 1
              /\ emitted'[Len(emitted')].id = Len(reqs')
              /\ emitted'[Len(emitted')].user_id = u
              /\ emitted'[Len(emitted')].event_type = "Page Leave"
              /\ (u \notin DOMAIN userVisitTimes /\ u \notin DOMAIN pageVisitLogged)
                    => UNCHANGED <<userVisitTimes, pageVisitLogged>>]_vars

\* One principal visited and left twice in a row, while the other has a
\* session open: two "Page Leave" INSERTs and only the other session left.
C13_Witness ==
    \E u, v \in Users :
        /\ u # v
        /\ DOMAIN userVisitTimes = {v}
        /\ DOMAIN pageVisitLogged = {v}
        /\ Cardinality({i \in Lifecycle(u) : reqs[i].op = "leave"}) = 2
        /\ Cardinality(Records(Lifecycle(u), "Page Leave")) = 2

\* C14: every activity request hands exactly one INSERT to storage, with the
\* event name of the request and its details stamped with the server time,
\* whatever was recorded before and whether or not its principal has a
\* session; it changes neither map.
C14_ActivityUnconditional ==
    /\ [](\A i \in DOMAIN reqs :
            reqs[i].op = "activity" =>
              /\ Cardinality(RecordsOf(i)) = 1
              /\ \A k \in RecordsOf(i) :
                    /\ emitted[k].user_id = reqs[i].user
                    /\ emitted[k].event_type = reqs[i].event
                    /\ emitted[k].details.timestamp = reqs[i].at \div MsPerSec)
    /\ [][\A u \in Users :
            ActivityStep(u) =>
              /\ UNCHANGED <<pageVisitLogged, userVisitTimes>>
              /\ Len(emitted') = Len(emitted) + 1
              /\ emitted'[Len(emitted')].id = Len(reqs')
              /\ queryQueue' = Append(queryQueue, emitted'[Len(emitted')])]_vars

\* Three activity requests of one principal with the same event name, the
\* first with no session, the others after a visit: two INSERTs of them are
\* in the table.
C14_Witness ==
    \E u \in Users : \E i, j \in DOMAIN reqs :
        /\ i < j
        /\ reqs[i].user = u /\ reqs[i].op = "activity"
        /\ reqs[j].user = u /\ reqs[j].op = "activity"
        /\ reqs[i].event = reqs[j].event
        /\ OpenBefore(u, j) /\ ~OpenBefore(u, i)
        /\ Stored(i) /\ Stored(j)
        /\ u \in DOMAIN userVisitTimes

\* The step answers a request in the middleware: its token is absent or is
\* one that jwt.verify refuses.
RejectStep ==
    /\ Len(tokens') = Len(tokens) + 1
    /\ ~(tokens'[Len(tokens')].present /\ tokens'[Len(tokens')].valid)

\* C15: each request to /api/monitoring ends in exactly one of three ways:
\* without a token it is answered 401, with a token that fails verification
\* 403, and with a verified token its handler runs for the principal the
\* token names; a 401 or a 403 changes neither map and hands nothing to
\* storage.
C15_AuthBoundary ==
    /\ [](/\ Len(tokens) = Len(reqs)
          /\ \A i \in DOMAIN reqs :
                /\ ~tokens[i].present =>
                      /\ reqs[i].op = "rejected"
                      /\ i \in DOMAIN responses
                      /\ responses[i] = [status |-> 401, body |-> "Unauthorized"]
                      /\ RecordsOf(i) = {}
                /\ (tokens[i].present /\ ~tokens[i].valid) =>
                      /\ reqs[i].op = "rejected"
                      /\ i \in DOMAIN responses
                      /\ responses[i] = [status |-> 403, body |-> "Forbidden"]
                      /\ RecordsOf(i) = {}
                /\ (tokens[i].present /\ tokens[i].valid) =>
                      /\ reqs[i].op \in {"visit", "leave", "activity"}
                      /\ reqs[i].user = tokens[i].id
                      /\ i \in DOMAIN responses =>
                            responses[i].status \in {200, 500})
    /\ [][RejectStep =>
            /\ UNCHANGED <<pageVisitLogged, userVisitTimes>>
            /\ UNCHANGED <<emitted, queryQueue, activities>>]_vars

\* A principal has a session open; a request without a token was answered
\* 401 and one with a refused token naming that principal 403, and the
\* session and the single INSERT are as the visit left them.
C15_Witness ==
    \E u \in Users : \E i, j, k \in DOMAIN reqs :
        /\ i < j /\ j < k
        /\ tokens[i].valid /\ reqs[i].op = "visit" /\ reqs[i].user = u
        /\ ~tokens[j].present /\ responses[j].status = 401
        /\ tokens[k].present /\ ~tokens[k].valid /\ tokens[k].id = u
        /\ responses[k].status = 403
        /\ u \in DOMAIN userVisitTimes
        /\ userVisitTimes[u].visitTime = reqs[i].at
        /\ Len(emitted) = 1

\* C16: every copy of a message a socket was emitted has the event name and
\* the payload the sender gave the relay.
C16_Verbatim ==
    \A t \in Sockets : \A k \in DOMAIN inbox[t] :
        /\ inbox[t][k].id \in DOMAIN sent
        /\ inbox[t][k].event = sent[inbox[t][k].id].event
        /\ inbox[t][k].data = sent[inbox[t][k].id].data

\* B has received an offer of A carrying sdp1 and C an answer of A carrying
\* sdp2.
C16_Witness ==
    /\ \E k \in DOMAIN inbox["B"] :
          /\ inbox["B"][k].event = "offer" /\ inbox["B"][k].data = "sdp1"
          /\ sent[inbox["B"][k].id].from = "A"
    /\ \E k \in DOMAIN inbox["C"] :
          /\ inbox["C"][k].event = "answer" /\ inbox["C"][k].data = "sdp2"
          /\ sent[inbox["C"][k].id].from = "A"

C18_SessionPersists ==
    [][\A u \in Users :
          (u \in DOMAIN pageVisitLogged /\ ~LeaveStep(u))
              => /\ u \in DOMAIN pageVisitLogged'
                 /\ pageVisitLogged'[u] = pageVisitLogged[u]
                 /\ u \in DOMAIN userVisitTimes'
                 /\ userVisitTimes'[u] = userVisitTimes[u]]_vars

\* The session u1 opened at time 0 is open at the last instant, after
\* storage has rejected its INSERT and a socket has connected.
C18_Witness ==
    /\ now = MaxNow
    /\ "u1" \in DOMAIN pageVisitLogged
    /\ userVisitTimes["u1"].visitTime = 0
    /\ \E i \in DOMAIN reqs :
          /\ reqs[i].user = "u1" /\ reqs[i].op = "visit" /\ reqs[i].at = 0
          /\ Rejected(i)
    /\ Connected # {}

\* What the page-visit and page-leave calls of u determine by themselves,
\* whatever the other principals do: whether u has a session open and since
\* when, whether request i emits a record, and the timeSpent of leave j.
AloneOpen(u) == Lifecycle(u) # {} /\ reqs[Max(Lifecycle(u))].op = "visit"
AloneVisitTime(u) == reqs[Opener(u, Len(reqs) + 1)].at
AloneEmits(i) == reqs[i].op = "leave" \/ Opening(i)
AloneTimeSpent(u, j) ==
    IF OpenBefore(u, j)
    THEN (reqs[j].at - reqs[Opener(u, j)].at) \div MsPerSec
    ELSE 0

\* The step handles a page-visit or page-leave request of p.
LifecycleStep(p) ==
    /\ Len(reqs') = Len(reqs) + 1
    /\ reqs'[Len(reqs')].user = p
    /\ reqs'[Len(reqs')].op \in {"visit", "leave"}

\* The entries of q in the two maps.
Entries(q) ==
    <<q \in DOMAIN pageVisitLogged,
      IF q \in DOMAIN pageVisitLogged THEN pageVisitLogged[q] ELSE FALSE,
      q \in DOMAIN userVisitTimes,
      IF q \in DOMAIN userVisitTimes THEN userVisitTimes[q].visitTime ELSE 0>>

\* C19: a page-visit or page-leave of P leaves the session state of every
\* other principal Q as it was, and under every interleaving the session,
\* the emitted records and the responses of each principal are those its own
\* calls determine.
C19_PrincipalsIndependent ==
    /\ [](\A u \in Users :
            /\ (u \in DOMAIN pageVisitLogged) = AloneOpen(u)
            /\ (u \in DOMAIN userVisitTimes) = AloneOpen(u)
            /\ AloneOpen(u) => userVisitTimes[u].visitTime = AloneVisitTime(u)
            /\ \A i \in Lifecycle(u) :
                  /\ Cardinality(RecordsOf(i)) = IF AloneEmits(i) THEN 1 ELSE 0
                  /\ \A k \in RecordsOf(i) :
                        /\ emitted[k].user_id = u
                        /\ emitted[k].details.timestamp = reqs[i].at
                        /\ reqs[i].op = "leave" =>
                              emitted[k].details.timeSpent = AloneTimeSpent(u, i)
                  /\ ~AloneEmits(i) =>
                        /\ i \in DOMAIN responses
                        /\ responses[i].body = "Page visit already recorded"
                  /\ (AloneEmits(i) /\ i \in DOMAIN responses) =>
                        \/ responses[i].status = 500
                        \/ /\ responses[i].status = 200
                           /\ responses[i].body =
                                  IF reqs[i].op = "visit"
                                  THEN "Page visit recorded"
                                  ELSE "Page leave recorded")
    /\ [][\A p, q \in Users :
              (p # q /\ LifecycleStep(p)) => Entries(q)' = Entries(q)]_vars

\* u1 visits, u2 visits, u1 leaves: u2 has its session, opened at its own
\* visit, u1 has none, and each of the three requests has its one record.
C19_Witness ==
    /\ Len(reqs) = 3
    /\ reqs[1].user = "u1" /\ reqs[1].op = "visit"
    /\ reqs[2].user = "u2" /\ reqs[2].op = "visit"
    /\ reqs[3].user = "u1" /\ reqs[3].op = "leave"
    /\ reqs[1].at < reqs[2].at /\ reqs[2].at < reqs[3].at
    /\ "u1" \notin DOMAIN pageVisitLogged
    /\ "u2" \in DOMAIN pageVisitLogged
    /\ userVisitTimes["u2"].visitTime = reqs[2].at
    /\ \A i \in 1..3 : Cardinality(RecordsOf(i)) = 1

\* The step answers a request 500: storage rejected its INSERT.
StorageFailStep ==
    \E i \in DOMAIN responses' \ DOMAIN responses : responses'[i].status = 500

\* The step is the failure of the transport of s.
TransportFailStep(s) == conn[s] = "open" /\ conn'[s] = "broken"

\* The responses already given stay as they are.
ResponsesKept ==
    \A i \in DOMAIN responses :
        i \in DOMAIN responses' /\ responses'[i] = responses[i]

\* C20: a failure touches only its own request or peer. A request rejected
\* by the middleware changes nothing but its own response; an INSERT that
\* storage rejects changes nothing but the response of its request, and the
\* INSERTs pending behind it are still served; the failure of one transport
\* changes nothing of the tracker and of the other sockets. So what later
\* requests and relay events read is what it would be had the request not
\* failed, and after any failure every route, callback and socket handler
\* still runs.
C20_FailuresScoped ==
    /\ [][(RejectStep =>
             /\ UNCHANGED <<now, pageVisitLogged, userVisitTimes, queryQueue,
                            activities, emitted>>
             /\ UNCHANGED relayVars
             /\ ResponsesKept)
          /\ (StorageFailStep =>
                /\ UNCHANGED <<now, pageVisitLogged, userVisitTimes, activities,
                               reqs, tokens, emitted>>
                /\ UNCHANGED relayVars
                /\ queryQueue' = Tail(queryQueue)
                /\ ResponsesKept)
          /\ (\A s \in Sockets : TransportFailStep(s) =>
                /\ UNCHANGED trackerVars
                /\ UNCHANGED <<members, inbox, sent>>
                /\ \A t \in Sockets \ {s} : conn'[t] = conn[t])]_vars
    /\ [](/\ (Len(reqs) < MaxReqs =>
                 \A token \in Tokens :
                     /\ ENABLED PostPageVisit(token)
                     /\ ENABLED PostPageLeave(token)
                     /\ \A event \in ActivityEvents, details \in ActivityDetails :
                           ENABLED PostActivity(token, event, details))
           /\ (queryQueue # <<>> =>
                 \A err \in BOOLEAN :
                     ENABLED (\/ PageVisitCallback(err)
                              \/ PageLeaveCallback(err)
                              \/ ActivityCallback(err)))
           /\ \A s \in Sockets :
                 /\ conn[s] = "new" => ENABLED Connect(s)
                 /\ conn[s] \in {"open", "broken"} => ENABLED Disconnect(s)
                 /\ (conn[s] = "open" /\ Len(sent) < MaxMsgs) =>
                       \A data \in Payloads :
                           /\ ENABLED Offer(s, data)
                           /\ ENABLED Answer(s, data)
                           /\ ENABLED IceCandidate(s, data))

\* Storage rejected the INSERT of the visit of u1; the visit of u1 that came
\* later was answered as the visit of an open session.
C20_Witness ==
    /\ Len(reqs) = 2
    /\ reqs[1].user = "u1" /\ reqs[1].op = "visit"
    /\ 1 \in DOMAIN responses /\ responses[1].status = 500
    /\ reqs[2].user = "u1" /\ reqs[2].op = "visit"
    /\ reqs[2].at > reqs[1].at
    /\ 2 \in DOMAIN responses
    /\ responses[2].body = "Page visit already recorded"

\* C21: the relay keeps no negotiation state. A connected socket may send an
\* offer, an answer or an ice-candidate at any point, whatever was relayed
\* before, and each message the relay received has reached every other
\* connected peer.
C21_NoNegotiationState ==
    /\ \A s \in Sockets :
          (conn[s] = "open" /\ Len(sent) < MaxMsgs) =>
              \A data \in Payloads :
                  /\ ENABLED Offer(s, data)
                  /\ ENABLED Answer(s, data)
                  /\ ENABLED IceCandidate(s, data)
    /\ \A i \in DOMAIN sent :
          \A t \in sent[i].peers \ {sent[i].from} : Copies(i, t) # {}

\* With no offer ever sent, an answer of A has reached B, and then an
\* ice-candidate of B has reached A.
C21_Witness ==
    /\ Len(sent) = 2
    /\ sent[1].from = "A" /\ sent[1].event = "answer"
    /\ Copies(1, "B") # {}
    /\ sent[2].from = "B" /\ sent[2].event = "ice-candidate"
    /\ Copies(2, "A") # {}

\* The step is the disconnect of socket s.
DisconnectStep(s) == conn[s] \in {"open", "broken"} /\ conn'[s] = "closed"

\* C22: a disconnect removes its socket from the membership in the same
\* step, whatever the state of the relay, and sends nothing: no inbox
\* changes, and every entry of an inbox is a copy of a relayed message.
C22_SilentDisconnect ==
    /\ [][\A s \in Sockets :
            DisconnectStep(s) => /\ members' = members \ {s}
                                 /\ inbox' = inbox
                                 /\ sent' = sent]_vars
    /\ [](\A t \in Sockets : \A k \in DOMAIN inbox[t] :
            /\ inbox[t][k].id \in DOMAIN sent
            /\ inbox[t][k].event \in {"offer", "answer", "ice-candidate"})
    /\ [](\A s \in Sockets :
            conn[s] \in {"open", "broken"} => ENABLED Disconnect(s))

\* B sent an offer to A and C and then disconnected: A and C are connected
\* and hold the offer and nothing else.
C22_Witness ==
    /\ conn["A"] = "open" /\ conn["B"] = "closed" /\ conn["C"] = "open"
    /\ members = {"A", "C"}
    /\ Len(sent) = 1 /\ sent[1].from = "B" /\ sent[1].peers = Sockets
    /\ Len(inbox["A"]) = 1 /\ Len(inbox["C"]) = 1

\* C23: the two maps have the same principals: pageVisitLogged[P] is true
\* exactly when userVisitTimes[P] holds a visit time, a time no later than
\* now.
C23_MapsAgree ==
    /\ DOMAIN pageVisitLogged = DOMAIN userVisitTimes
    /\ \A u \in DOMAIN pageVisitLogged :
          /\ pageVisitLogged[u] = TRUE
          /\ userVisitTimes[u].visitTime \in 0..now

\* u1 has visited and is in both maps; u2 has visited and left and is in
\* neither.
C23_Witness ==
    /\ DOMAIN pageVisitLogged = {"u1"}
    /\ DOMAIN userVisitTimes = {"u1"}
    /\ \E i, j \in Lifecycle("u2") :
          i < j /\ reqs[i].op = "visit" /\ reqs[j].op = "leave"
    /\ \E i \in Lifecycle("u1") : reqs[i].op = "visit"

\* The step hands an INSERT to storage.
EmitStep == Len(emitted') = Len(emitted) + 1

\* C24: the step of a handler that hands an INSERT to storage has already
\* set or cleared the session and leaves the INSERT pending, its request
\* unanswered; a response once given does not change; a request is answered
\* 200 "recorded" only if its row is in the table and 500 only if storage
\* rejected its INSERT; and with a storage that answers, whatever requests
\* have arrived, a moment comes when all of them are answered.
C24_CheckSetThenWrite ==
    /\ [][EmitStep =>
            /\ Len(reqs') = Len(reqs) + 1
            /\ queryQueue' = Append(queryQueue, emitted'[Len(emitted')])
            /\ emitted'[Len(emitted')].id = Len(reqs')
            /\ Len(reqs') \notin DOMAIN responses'
            /\ \A u \in Users :
                  /\ VisitStep(u) => u \in DOMAIN pageVisitLogged'
                  /\ LeaveStep(u) => u \notin DOMAIN pageVisitLogged']_vars
    /\ [][ResponsesKept]_vars
    /\ [](\A i \in DOMAIN responses :
            /\ ~Pending(i)
            /\ (responses[i].status = 200 /\ RecordsOf(i) # {}) => Stored(i)
            /\ responses[i].status = 500 => Rejected(i)
            /\ responses[i].status \in {200, 500})
    /\ []<>(DOMAIN responses = DOMAIN reqs)

\* Three requests are answered: a visit whose INSERT storage rejected, 500;
\* a second visit, answered at once; a leave whose row is in the table.
C24_Witness ==
    /\ Len(reqs) = 3 /\ DOMAIN responses = 1..3
    /\ reqs[1].op = "visit" /\ responses[1].status = 500
    /\ reqs[2].op = "visit" /\ reqs[2].user = reqs[1].user
    /\ responses[2].body = "Page visit already recorded"
    /\ reqs[3].op = "leave" /\ responses[3].body = "Page leave recorded"
    /\ Stored(3) /\ ~Stored(1)

\* The place of the row of request i in the table, and of its INSERT among
\* the pending ones.
Row(i) == CHOOSE k \in DOMAIN activities : activities[k].id = i
QueuePlace(i) == CHOOSE k \in DOMAIN queryQueue : queryQueue[k].id = i

\* C25: for the visit o that opened a session and a leave j of that session,
\* the INSERT of o is handed to storage before the INSERT of j and is served
\* first: while o is pending j is pending behind it, the row of j is in the
\* table only once o has been answered, and when both rows are in the table
\* the row of o comes first.
C25_VisitRowBeforeLeaveRow ==
    \A u \in Users : \A j \in Lifecycle(u) :
        (reqs[j].op = "leave" /\ OpenBefore(u, j)) =>
            LET o == Opener(u, j)
            IN  /\ o < j
                /\ \A a \in RecordsOf(o), b \in RecordsOf(j) : a < b
                /\ Pending(o) => (Pending(j) /\ QueuePlace(o) < QueuePlace(j))
                /\ Stored(j) => ~Pending(o)
                /\ (Stored(o) /\ Stored(j)) => Row(o) < Row(j)

\* The leave of u1 arrived while the INSERT of its visit was pending: both
\* INSERTs wait, the visit's first.
C25_Witness ==
    /\ Len(reqs) = 2
    /\ reqs[1].user = "u1" /\ reqs[1].op = "visit"
    /\ reqs[2].user = "u1" /\ reqs[2].op = "leave"
    /\ Len(queryQueue) = 2
    /\ queryQueue[1].event_type = "Page Visit"
    /\ queryQueue[2].event_type = "Page Leave"
    /\ activities = <<>>

\* The lifecycle request of u after request i, 0 when there is none.
Succ(u, i) ==
    LET after == {k \in Lifecycle(u) : k > i}
    IN  IF after = {} THEN 0 ELSE Min(after)

\* C26: when storage rejects the INSERT of a leave that closed a session,
\* the leave is answered 500 and the session stays cleared: with no later
\* request of the principal neither map holds it, a leave that follows
\* emits timeSpent = 0, a visit that follows opens a new session, and no row
\* of the table carries the time spent in the closed session.
C26_RejectedLeaveLosesDuration ==
    \A u \in Users : \A j \in Lifecycle(u) :
        (reqs[j].op = "leave" /\ OpenBefore(u, j) /\ Rejected(j)) =>
            /\ j \in DOMAIN responses /\ responses[j].status = 500
            /\ Succ(u, j) = 0 =>
                  (u \notin DOMAIN pageVisitLogged /\ u \notin DOMAIN userVisitTimes)
            /\ \A n \in Lifecycle(u) :
                  (n > j /\ reqs[n].op = "leave" /\ Prev(u, n) = j) =>
                      /\ Cardinality(RecordsOf(n)) = 1
                      /\ \A k \in RecordsOf(n) : emitted[k].details.timeSpent = 0
            /\ \A n \in Lifecycle(u) :
                  (n > j /\ reqs[n].op = "visit" /\ Prev(u, n) = j) =>
                      (RecordsOf(n) # {}
                       /\ \A k \in RecordsOf(n) :
                             emitted[k].details.timestamp = reqs[n].at)
            /\ \A k \in DOMAIN activities :
                  (activities[k].user_id = u
                   /\ activities[k].event_type = "Page Leave"
                   /\ activities[k].id >= j)
                      => (activities[k].id > j
                          /\ (Prev(u, activities[k].id) = j
                                => activities[k].details.timeSpent = 0))

\* u1 visited at 0 and left a second or more later; storage rejected that
\* INSERT, which carried the time spent; the retried leave is in the table
\* with timeSpent = 0.
C26_Witness ==
    /\ Len(reqs) = 3
    /\ reqs[1].user = "u1" /\ reqs[1].op = "visit" /\ reqs[1].at = 0
    /\ reqs[2].user = "u1" /\ reqs[2].op = "leave"
    /\ \A k \in RecordsOf(2) : emitted[k].details.timeSpent >= 1
    /\ Rejected(2) /\ responses[2].status = 500
    /\ reqs[3].user = "u1" /\ reqs[3].op = "leave"
    /\ Stored(3)
    /\ \A k \in RecordsOf(3) : emitted[k].details.timeSpent = 0

\* C27: the details an activity request hands to storage have the fields the
\* caller supplied and timestamp; every field but timestamp has the caller's
\* value, and timestamp is the server's time of day when the request
\* arrived, not the timestamp the caller supplied.
C27_ServerTimestamp ==
    \A i \in DOMAIN reqs :
        reqs[i].op = "activity" =>
            \A k \in RecordsOf(i) :
                \E details \in ActivityDetails :
                    /\ DOMAIN emitted[k].details = DOMAIN details \cup {"timestamp"}
                    /\ \A f \in DOMAIN details \ {"timestamp"} :
                          emitted[k].details[f] = details[f]
                    /\ emitted[k].details.timestamp = LocaleTimeString(reqs[i].at)

\* An activity that arrived a second after midnight with button = 1 and a
\* timestamp of its own is in the table with button = 1 and timestamp = 1.
C27_Witness ==
    \E i \in DOMAIN reqs :
        /\ reqs[i].op = "activity" /\ reqs[i].at >= MsPerSec
        /\ Stored(i)
        /\ \A details \in ActivityDetails :
              "timestamp" \in DOMAIN details /\ details.timestamp # 1
        /\ activities[Row(i)].details.button = 1
        /\ activities[Row(i)].details.timestamp = 1

\* The step is a connect, a disconnect or a relayed message.
RelayStep ==
    \/ \E s \in Sockets : conn[s] = "new" /\ conn'[s] = "open"
    \/ \E s \in Sockets : DisconnectStep(s)
    \/ \E s \in Sockets : SendStep(s)

\* The step handles a monitoring request or a storage result.
TrackerStep == Len(reqs') = Len(reqs) + 1 \/ queryQueue' # queryQueue

C29_PerSenderFifo ==
    \A t \in Sockets : \A k, l \in DOMAIN inbox[t] :
        (k < l /\ sent[inbox[t][k].id].from = sent[inbox[t][l].id].from)
            => inbox[t][k].id < inbox[t][l].id

\* A sent an offer and then an ice-candidate: B holds the offer first, the
\* ice-candidate second.
C29_Witness ==
    /\ Len(sent) = 2
    /\ sent[1].from = "A" /\ sent[1].event = "offer"
    /\ sent[2].from = "A" /\ sent[2].event = "ice-candidate"
    /\ Len(inbox["B"]) = 2
    /\ inbox["B"][1].event = "offer" /\ inbox["B"][1].id = 1
    /\ inbox["B"][2].event = "ice-candidate" /\ inbox["B"][2].id = 2

\* C30 as stated: a register call answered 400 creates no user, a call is
\* answered 400 only for a username that has a user, and after any
\* interleaving of register calls the table holds at most one user of each
\* username.
C30_OneUserPerUsername ==
    /\ \A r \in DOMAIN regResponses :
          regResponses[r] = 400 =>
              /\ \A k \in DOMAIN users : users[k].reg # r
              /\ FindUserByUsername(regs[r].username) # {}
    /\ \A username \in Usernames :
          Cardinality(FindUserByUsername(username)) <= 1

\* C31 as stated: login answers with a token only for a username that has a
\* user whose stored hash the password matches, the token carrying that
\* user's id; and every login whose lookup did not fail and that got no
\* token, whether its username is unknown or its password does not match,
\* is answered with the same 400 and message.
C31_LoginUniform ==
    \A l \in DOMAIN loginResponses :
        LET r == loginResponses[l]
        IN  /\ r.status = 200 =>
                   /\ r.id \in FindUserByUsername(logins[l].username)
                   /\ IsString(logins[l].password)
                   /\ users[r.id].password = HashSync(logins[l].password)
            /\ (r.status # 200 /\ r # InternalServerError) => r = Invalid

====
